---- MODULE Spec2Model ----
(***************************************************************************)
(* A model of kuiper's resolution engine (lib/src/lib.rs) and of the CLI  *)
(* flow that drives it (cli/src/main.rs).                                  *)
(*                                                                         *)
(* Text is modelled at character level: a string is a sequence of          *)
(* one-character strings, so that marker scanning, substring replacement,  *)
(* path matching and JSON quoting are computed, not assumed.               *)
(* Option<T> is a sequence of length 0 (None) or 1 (Some).                 *)
(* KuiperResult<T> is [ok |-> TRUE, val |-> ...] or                        *)
(* [ok |-> FALSE, err |-> [kind |-> ..., arg |-> ...]].                    *)
(*                                                                         *)
(* Domain: paths are valid Unicode (environment values need not be);       *)
(* filesystems hold directories and regular files only (no symbolic        *)
(* links), and paths                                                       *)
(* have no "." or ".." components.  A behaviour is one call of the library *)
(* (interpolate_str, find, search) or one run of main.                     *)
(***************************************************************************)
EXTENDS Integers, Sequences, FiniteSets, TLC

\* ------------------------------------------------------------------ bounds
\* Longest interpolate_str input, counted in tokens of InputTokens.
MaxTokens == 3
\* Number of directory levels between the filesystem root and a request file.
MaxDepth == 2

\* ------------------------------------------------------- generic sequences
None == <<>>
Some(v) == <<v>>

RECURSIVE Flatten(_)
\* Concatenation of a sequence of strings.
Flatten(ss) == IF ss = <<>> THEN <<>> ELSE Head(ss) \o Flatten(Tail(ss))

Last(s) == s[Len(s)]
Front(s) == SubSeq(s, 1, Len(s) - 1)
Range(s) == {s[i] : i \in 1..Len(s)}

\* --------------------------------------------------------- str primitives
\* pat occurs in s at (1-based) position i.
MatchesAt(s, pat, i) ==
    /\ i >= 1
    /\ i + Len(pat) - 1 <= Len(s)
    /\ SubSeq(s, i, i + Len(pat) - 1) = pat

RECURSIVE FindFrom(_, _, _)
\* Position of the first occurrence of pat in s at or after i; 0 when none.
FindFrom(s, pat, i) ==
    IF i + Len(pat) - 1 > Len(s) THEN 0
    ELSE IF MatchesAt(s, pat, i) THEN i
    ELSE FindFrom(s, pat, i + 1)

RECURSIVE MatchIndicesFrom(_, _, _)
\* str::match_indices: the non-overlapping occurrences of pat, left to right.
MatchIndicesFrom(s, pat, i) ==
    IF FindFrom(s, pat, i) = 0 THEN <<>>
    ELSE <<FindFrom(s, pat, i)>> \o MatchIndicesFrom(s, pat, FindFrom(s, pat, i) + Len(pat))

MatchIndices(s, pat) == MatchIndicesFrom(s, pat, 1)

\* str::contains
Contains(s, pat) == FindFrom(s, pat, 1) # 0

RECURSIVE ReplaceFrom(_, _, _, _)
ReplaceFrom(s, from, to, i) ==
    IF FindFrom(s, from, i) = 0 THEN SubSeq(s, i, Len(s))
    ELSE SubSeq(s, i, FindFrom(s, from, i) - 1) \o to
         \o ReplaceFrom(s, from, to, FindFrom(s, from, i) + Len(from))

\* str::replace: EVERY non-overlapping occurrence of from becomes to.
StrReplace(s, from, to) == ReplaceFrom(s, from, to, 1)

\* str::split_once(':'): None, or Some(<<before, after>>) at the first ':'.
SplitOnce(s, ch) ==
    IF FindFrom(s, <<ch>>, 1) = 0 THEN None
    ELSE Some(<<SubSeq(s, 1, FindFrom(s, <<ch>>, 1) - 1),
                SubSeq(s, FindFrom(s, <<ch>>, 1) + 1, Len(s))>>)

\* ----------------------------------------------------------------- errors
Err(kind, arg) == [ok |-> FALSE, err |-> [kind |-> kind, arg |-> arg]]
Ok(v) == [ok |-> TRUE, val |-> v]

\* KuiperError::InterpolationError(InterpolationError::InvalidFormat)
InvalidFormat == Err("InterpolationError::InvalidFormat", <<>>)
\* KuiperError::InterpolationError(InterpolationError::MissingEnvVar(name))
MissingEnvVar(name) == Err("InterpolationError::MissingEnvVar", name)
\* KuiperError::InvalidExpr(name)
InvalidExpr(name) == Err("InvalidExpr", name)
\* KuiperError::IoError(e), arg the one-element sequence of its io::ErrorKind
IoError(kind) == Err("IoError", kind)
\* KuiperError::JsonError(e)
JsonError == Err("JsonError", <<>>)
RequestNotFound == Err("RequestNotFound", <<>>)

\* ------------------------------------------------------------ environment
OPEN == <<"{", "{">>
CLOSE == <<"}", "}">>
S_env == <<"e", "n", "v">>
S_expr == <<"e", "x", "p", "r">>
S_uuid == <<"u", "u", "i", "d">>
S_now == <<"n", "o", "w">>

\* The value of an environment variable: Unicode text, or bytes that are not
\* valid Unicode.
Unicode(text) == [unicode |-> TRUE, text |-> text]
NotUnicode == [unicode |-> FALSE, text |-> <<>>]

\* The process environment during resolution: A, Q, R and N are set, every
\* other name is unset.  Q holds a double quote, R holds placeholder text, N
\* holds bytes that are not valid Unicode.
ProcessEnv ==
    (<<"A">> :> Unicode(<<"1">>)) @@ (<<"Q">> :> Unicode(<<"\"">>)) @@
    (<<"R">> :> Unicode(OPEN \o S_env \o <<":", "A">> \o CLOSE)) @@
    (<<"N">> :> NotUnicode)

\* main's std::env::set_var("RUST_LOG", ..) when the variable is not set.
S_RUST_LOG == <<"R", "U", "S", "T", "_", "L", "O", "G">>
S_LogFilter ==
    <<"i", "n", "f", "o", ",", "k", "u", "i", "p", "e", "r", "_", "l", "i", "b",
      "=", "t", "r", "a", "c", "e">>

\* std::env::var(name): the text of a variable that is set to valid Unicode.
EnvVar(e, name) ==
    IF name \notin DOMAIN e THEN Err("VarError::NotPresent", name)
    ELSE IF ~e[name].unicode THEN Err("VarError::NotUnicode", name)
    ELSE Ok(e[name].text)

\* std::env::set_var(name, text)
SetVar(e, name, text) ==
    [n \in DOMAIN e \cup {name} |-> IF n = name THEN Unicode(text) ELSE e[n]]

\* main, lines 41-43: RUST_LOG is set when std::env::var("RUST_LOG") is an error.
WithRustLog(e) == IF EnvVar(e, S_RUST_LOG).ok THEN e ELSE SetVar(e, S_RUST_LOG, S_LogFilter)

\* dotenv::from_path: each variable of the file is set when std::env::var of
\* its name is an error; a variable that reads as Unicode text is kept.
LoadEnv(e, file_vars) ==
    [n \in DOMAIN e \cup DOMAIN file_vars |->
        IF n \in DOMAIN file_vars /\ ~EnvVar(e, n).ok THEN Unicode(file_vars[n]) ELSE e[n]]

Digits == <<"0", "1", "2", "3", "4", "5", "6", "7", "8", "9">>
\* Uuid::new_v4().to_string(): the g-th identifier drawn; distinct draws differ.
UuidText(g) == <<"#", Digits[((g \div 10) % 10) + 1], Digits[(g % 10) + 1]>>
\* Timestamp::now().to_string(): the reading of the clock at its t-th read.
NowText(t) == <<"T", Digits[((t \div 10) % 10) + 1], Digits[(t % 10) + 1]>>

\* The sources of fresh values a resolution draws from: rng counts the uuids
\* generated so far, clock the reads of the wall clock.
Gen0 == [rng |-> 0, clock |-> 0]

\* ---------------------------------------------------------- interpolation
\* The `?` operator: an error returns at once, a success continues with F.
Try(r, F(_)) == IF r.ok THEN F(r) ELSE [ok |-> FALSE, err |-> r.err]
\* A value bound once and used by F.
Let(v, F(_)) == F(v)

\* A successful evaluation: the value, the generator after it, and (for a
\* placeholder) the span of the input it stands for.
Value(val, g) == [ok |-> TRUE, val |-> val, gen |-> g]
Spanned(r, span) == [ok |-> TRUE, val |-> r.val, gen |-> r.gen, span |-> span]

\* Request::interpolation_expr; returns the value and the generator after.
interpolation_expr(expr, g) ==
    IF expr = S_uuid THEN Value(UuidText(g.rng), [g EXCEPT !.rng = @ + 1])
    ELSE IF expr = S_now THEN Value(NowText(g.clock), [g EXCEPT !.clock = @ + 1])
    ELSE InvalidExpr(expr)

\* EvalPlaceholder with an unreadable variable reported as a syntax problem.
EvalPlaceholderUnsetIsFormat(interpolation_type, name, e, g) ==
    IF interpolation_type = S_env THEN
        IF EnvVar(e, name).ok THEN Value(EnvVar(e, name).val, g) ELSE InvalidFormat
    ELSE IF interpolation_type = S_expr THEN interpolation_expr(name, g)
    ELSE InvalidFormat

\* The match of interpolate_str on the placeholder's kind and name; every
\* error of std::env::var becomes MissingEnvVar(name).
EvalPlaceholder(interpolation_type, name, e, g) ==
    IF interpolation_type = S_env THEN
        IF EnvVar(e, name).ok THEN Value(EnvVar(e, name).val, g) ELSE MissingEnvVar(name)
    ELSE IF interpolation_type = S_expr THEN interpolation_expr(name, g)
    ELSE InvalidFormat

\* interpolated_name.split_once(':') and the evaluation of its two parts.
EvalName(parts, e, g) ==
    IF parts = None THEN InvalidFormat
    ELSE EvalPlaceholder(parts[1][1], parts[1][2], e, g)

\* The placeholder of the open marker at start, given the position close of
\* the nearest close marker at or after start (0: none).
PlaceholderClosedAt(input, start, close, e, g) ==
    IF close = 0 THEN InvalidFormat
    ELSE Try(EvalName(SplitOnce(SubSeq(input, start + 2, close - 1), ":"), e, g),
             LAMBDA v : Spanned(v, SubSeq(input, start, close + 1)))

\* PlaceholderAt with the close marker searched from the start of the input
\* instead of from the open marker.
PlaceholderAtFirstClose(input, start, e, g) ==
    PlaceholderClosedAt(input, start, FindFrom(input, CLOSE, 1), e, g)

\* The body of the for loop of interpolate_str for the open marker at start:
\* the placeholder's span in input, and its evaluation.
PlaceholderAt(input, start, e, g) ==
    PlaceholderClosedAt(input, start, FindFrom(input, CLOSE, start), e, g)

\* result.replace(span, value): every occurrence of the span's text in the
\* running result is replaced.
ReplaceSpan(result, span, value) == StrReplace(result, span, value)

RECURSIVE InterpolateLoop(_, _, _, _, _)
InterpolateLoop(input, starts, result, e, g) ==
    IF starts = <<>> THEN Value(result, g)
    ELSE Try(PlaceholderAt(input, Head(starts), e, g),
             LAMBDA p : InterpolateLoop(input, Tail(starts),
                                        ReplaceSpan(result, p.span, p.val), e, p.gen))

\* Request::interpolate_str
interpolate_str(input, e, g) ==
    InterpolateLoop(input, MatchIndices(input, OPEN), input, e, g)

\* --------------------------------------------------- serde_json (fragment)
\* Bodies are JSON strings (Value::String): the smallest value whose text form
\* needs quoting.  QUOTE and BACKSLASH are the two characters serde_json escapes
\* among those the model's texts contain.
QUOTE == "\""
BACKSLASH == "\\"

RECURSIVE JsonEscape(_)
JsonEscape(s) ==
    IF s = <<>> THEN <<>>
    ELSE (IF Head(s) \in {QUOTE, BACKSLASH} THEN <<BACKSLASH, Head(s)>> ELSE <<Head(s)>>)
         \o JsonEscape(Tail(s))

\* Value::to_string of Value::String(s)
ValueToString(s) == <<QUOTE>> \o JsonEscape(s) \o <<QUOTE>>

RECURSIVE JsonParseString(_, _, _)
\* The string literal whose opening quote precedes position i; the literal must
\* end the text.  Escapes other than \" \\ \/ do not occur in the model's texts.
JsonParseString(text, i, acc) ==
    IF i > Len(text) THEN JsonError
    ELSE IF text[i] = QUOTE THEN (IF i = Len(text) THEN Ok(Some(acc)) ELSE JsonError)
    ELSE IF text[i] = BACKSLASH THEN
        IF i + 1 <= Len(text) /\ text[i + 1] \in {QUOTE, BACKSLASH, "/"}
        THEN JsonParseString(text, i + 2, Append(acc, text[i + 1]))
        ELSE JsonError
    ELSE JsonParseString(text, i + 1, Append(acc, text[i]))

\* serde_json::from_str::<Option<Value>>.  Every text parsed here begins with the
\* quote ValueToString wrote (a placeholder span cannot cover it), or is null.
JsonFromStr(text) ==
    IF text = <<"n", "u", "l", "l">> THEN Ok(None)
    ELSE IF text # <<>> /\ text[1] = QUOTE THEN JsonParseString(text, 2, <<>>)
    ELSE JsonError

\* ------------------------------------------------------------- filesystem
\* A path is the sequence of its components below "/"; <<>> is the root.
\* fs.dirs: the directories; fs.files: file path -> content; fs.denied: paths
\* whose content cannot be read (a directory that cannot be listed, a file that
\* cannot be opened).  File contents are modelled by what they parse to:
\* [kind |-> "request", req |-> r], [kind |-> "headers", map |-> h] or
\* [kind |-> "text"] (not JSON of either shape).
SEP == "/"
HEADERS_JSON == <<"h", "e", "a", "d", "e", "r", "s", ".", "j", "s", "o", "n">>
S_kuiper == <<"k", "u", "i", "p", "e", "r">>

RECURSIVE PathStr(_)
\* Path::to_str of an absolute path.
PathStr(p) == IF p = <<>> THEN <<>> ELSE PathStr(Front(p)) \o <<SEP>> \o Last(p)

PathToStr(p) == IF p = <<>> THEN <<SEP>> ELSE PathStr(p)

IsDir(fs, p) == p \in fs.dirs
IsFile(fs, p) == p \in DOMAIN fs.files
Exists(fs, p) == IsDir(fs, p) \/ IsFile(fs, p)
UnderFile(fs, p) == \E n \in 0..(Len(p) - 1) : IsFile(fs, SubSeq(p, 1, n))

\* Path::canonicalize of an absolute path without ".", ".." or symlinks.
Canonicalize(fs, p) ==
    IF Exists(fs, p) THEN Ok(p)
    ELSE IF UnderFile(fs, p) THEN Err("io", <<"NotADirectory">>)
    ELSE Err("io", <<"NotFound">>)

\* File::open(path), read-only
FileOpen(fs, p) ==
    IF UnderFile(fs, p) THEN Err("io", <<"NotADirectory">>)
    ELSE IF ~Exists(fs, p) THEN Err("io", <<"NotFound">>)
    ELSE IF p \in fs.denied THEN Err("io", <<"PermissionDenied">>)
    ELSE Ok(p)

\* Path::ancestors: the path, its parent, ..., the root.
Ancestors(p) == [i \in 1..(Len(p) + 1) |-> SubSeq(p, 1, Len(p) + 1 - i)]
Skip(s, n) == SubSeq(s, n + 1, Len(s))
Rev(s) == [i \in 1..Len(s) |-> s[Len(s) + 1 - i]]

\* HeaderDirs without the second skip: the filesystem root is consulted too.
HeaderDirsWithRoot(path) == Rev(Skip(Ancestors(path), 1))

\* ancestors.into_iter().skip(1).rev().skip(1): the directories find consults.
HeaderDirs(path) == Skip(Rev(Skip(Ancestors(path), 1)), 1)

\* Path::extension().unwrap_or("") of an entry with file name n.
LastDot(n) ==
    IF \A i \in 1..Len(n) : n[i] # "." THEN 0
    ELSE CHOOSE i \in 1..Len(n) : n[i] = "." /\ \A j \in (i + 1)..Len(n) : n[j] # "."
Extension(n) == IF LastDot(n) <= 1 THEN <<>> ELSE SubSeq(n, LastDot(n) + 1, Len(n))

\* ---------------------------------------------------------------- Request
\* impl From<std::io::Error> for KuiperError
FromIoError(r) == IoError(r.err.arg)

\* Request::from_file
from_file(fs, path) ==
    IF ~FileOpen(fs, path).ok THEN
        (IF FileOpen(fs, path).err.arg = <<"NotFound">> THEN RequestNotFound
         ELSE FromIoError(FileOpen(fs, path)))
    ELSE IF IsDir(fs, path) THEN JsonError
    ELSE IF fs.files[path].kind # "request" THEN JsonError
    ELSE Ok([fs.files[path].req EXCEPT !.name = PathToStr(path)])

\* overwrite_headers: headers.insert for every entry of the file at path.
overwrite_headers(fs, path, headers) ==
    IF ~FileOpen(fs, path).ok THEN
        (IF FileOpen(fs, path).err.arg = <<"NotFound">> THEN Ok(headers)
         ELSE FromIoError(FileOpen(fs, path)))
    ELSE IF IsDir(fs, path) THEN JsonError
    ELSE IF fs.files[path].kind # "headers" THEN JsonError
    ELSE Ok(fs.files[path].map @@ headers)

\* add_header_if_not_exists inserting over an occupied entry.
add_header_overwriting(headers, header_name, header_value) ==
    (header_name :> header_value) @@ headers

\* Request::add_header_if_not_exists
add_header_if_not_exists(headers, header_name, header_value) ==
    IF header_name \in DOMAIN headers THEN headers
    ELSE (header_name :> header_value) @@ headers

RECURSIVE AddHeaders(_, _, _)
\* for (name, value) in headers { request.add_header_if_not_exists(name, value) }
AddHeaders(own, inherited, names) ==
    IF names = {} THEN own
    ELSE Let(CHOOSE k \in names : TRUE,
             LAMBDA n : AddHeaders(add_header_if_not_exists(own, n, inherited[n]),
                                   inherited, names \ {n}))

\* The outcome of the loop of find over the ancestor directories; seen lists
\* the directories whose headers.json was looked for.
Looked(r, seen) ==
    IF r.ok THEN [ok |-> TRUE, val |-> r.val, seen |-> seen]
    ELSE [ok |-> FALSE, err |-> r.err, seen |-> seen]

RECURSIVE OverwriteAll(_, _, _)
\* for subdir in .. { overwrite_headers(&subdir.join("headers.json"), &mut headers)? }
\* from the state hs of the loop.
OverwriteAll(fs, subdirs, hs) ==
    IF subdirs = <<>> \/ ~hs.ok THEN hs
    ELSE OverwriteAll(fs, Tail(subdirs),
                      Looked(overwrite_headers(fs, Append(Head(subdirs), HEADERS_JSON), hs.val),
                             Append(hs.seen, Head(subdirs))))

\* The order in which a HashMap with key set keys is iterated, given the order
\* ord the hasher induces on all keys.
IterOrder(ord, keys) == SelectSeq(ord, LAMBDA k : k \in keys)

\* Request::interpolate_uri
interpolate_uri(req, e, g) ==
    Try(interpolate_str(req.uri, e, g),
        LAMBDA r : Value([req EXCEPT !.uri = r.val], r.gen))

RECURSIVE ParamsLoop(_, _, _, _)
ParamsLoop(params, keys, e, g) ==
    IF keys = <<>> THEN Value(params, g)
    ELSE Try(interpolate_str(params[Head(keys)], e, g),
             LAMBDA r : ParamsLoop([params EXCEPT ![Head(keys)] = r.val], Tail(keys),
                                   e, r.gen))

\* Request::interpolate_params
interpolate_params(req, e, g, ord) ==
    Try(ParamsLoop(req.params, IterOrder(ord, DOMAIN req.params), e, g),
        LAMBDA r : Value([req EXCEPT !.params = r.val], r.gen))

RECURSIVE HeadersLoop(_, _, _, _)
HeadersLoop(headers, keys, e, g) ==
    IF keys = <<>> THEN Value(headers, g)
    ELSE IF headers[Head(keys)] = None THEN HeadersLoop(headers, Tail(keys), e, g)
    ELSE Try(interpolate_str(headers[Head(keys)][1], e, g),
             LAMBDA r : HeadersLoop([headers EXCEPT ![Head(keys)] = Some(r.val)],
                                    Tail(keys), e, r.gen))

\* Request::interpolate_headers
interpolate_headers(req, e, g, ord) ==
    Try(HeadersLoop(req.headers, IterOrder(ord, DOMAIN req.headers), e, g),
        LAMBDA r : Value([req EXCEPT !.headers = r.val], r.gen))

\* Request::interpolate_body
interpolate_body(req, e, g) ==
    IF req.body = None THEN Value(req, g)
    ELSE Try(interpolate_str(ValueToString(req.body[1]), e, g),
             LAMBDA r : Try(JsonFromStr(r.val),
                            LAMBDA v : Value([req EXCEPT !.body = v.val], r.gen)))

\* InterpolateOrder with the headers interpolated before the params.
InterpolateOrderHeadersFirst == <<"uri", "headers", "params", "body">>

\* The fields of a request in the order Request::interpolate visits them.
InterpolateOrder == <<"uri", "params", "headers", "body">>

InterpolateField(field, req, e, g, ord) ==
    CASE field = "uri" -> interpolate_uri(req, e, g)
      [] field = "params" -> interpolate_params(req, e, g, ord)
      [] field = "headers" -> interpolate_headers(req, e, g, ord)
      [] field = "body" -> interpolate_body(req, e, g)

\* A step of interpolate: the state st after the fields before field, then field.
InterpolateStep(st, field, e, ord) ==
    IF ~st.ok THEN st
    ELSE Let(InterpolateField(field, st.val, e, st.gen, ord),
             LAMBDA r : IF r.ok THEN r ELSE [ok |-> FALSE, err |-> r.err, at |-> field])

RECURSIVE InterpolateFields(_, _, _, _)
InterpolateFields(fields, st, e, ord) ==
    IF fields = <<>> THEN st
    ELSE InterpolateFields(Tail(fields), InterpolateStep(st, Head(fields), e, ord), e, ord)

\* Request::interpolate
interpolate(req, e, g, ord) == InterpolateFields(InterpolateOrder, Value(req, g), e, ord)

\* What find returns: besides the KuiperResult, the record tells where find
\* stopped (stage), which directories it looked for a headers.json in (seen),
\* and the generator after the call.
FindErr(err, stage, seen, g) ==
    [ok |-> FALSE, err |-> err, stage |-> stage, seen |-> seen, gen |-> g]
FindOk(request, seen, g) ==
    [ok |-> TRUE, val |-> request, stage |-> "done", seen |-> seen, gen |-> g]

\* find from request.interpolate()? on.
FindInterpolated(r, seen, g) ==
    IF ~r.ok THEN FindErr(r.err, r.at, seen, g) ELSE FindOk(r.val, seen, r.gen)

\* find from the merge of the inherited headers hs into the request on.
FindMerged(request, hs, e, g, ord) ==
    IF ~hs.ok THEN FindErr(hs.err, "overwrite_headers", hs.seen, g)
    ELSE FindInterpolated(
            interpolate([request EXCEPT !.headers = AddHeaders(@, hs.val, DOMAIN hs.val)],
                        e, g, ord),
            hs.seen, g)

\* find from Self::from_file(&path)? on.
FindLoaded(fs, path, request, e, g, ord) ==
    IF ~request.ok THEN FindErr(request.err, "from_file", <<>>, g)
    ELSE FindMerged(request.val,
                    OverwriteAll(fs, HeaderDirs(path), [ok |-> TRUE, val |-> <<>>, seen |-> <<>>]),
                    e, g, ord)

\* find from path.canonicalize()? on.
FindCanonical(fs, canon, e, g, ord) ==
    IF ~canon.ok THEN FindErr(FromIoError(canon).err, "canonicalize", <<>>, g)
    ELSE FindLoaded(fs, canon.val, from_file(fs, canon.val), e, g, ord)

\* Request::find.  arg is the PathBuf given: [abs |-> is_absolute, comps |-> its
\* components]; cwd the current directory.
find(fs, cwd, arg, e, g, ord) ==
    FindCanonical(fs,
                  IF arg.abs THEN Ok(arg.comps) ELSE Canonicalize(fs, cwd \o arg.comps),
                  e, g, ord)

\* The entries of a directory, and the orders a set of entries can be listed in.
Entries(fs, dir) ==
    {p \in (fs.dirs \cup DOMAIN fs.files) \ {<<>>} : Front(p) = dir}
Perms(S) ==
    {l \in [1..Cardinality(S) -> S] : \A i, j \in 1..Cardinality(S) : l[i] = l[j] => i = j}

\* fs::read_dir(dir), read to its end: the ways it can come out.  The entries
\* of a directory come in an order of the filesystem's choosing, chosen anew
\* for every directory.
ReadDir(fs, dir) ==
    IF UnderFile(fs, dir) \/ IsFile(fs, dir) THEN {Err("io", <<"NotADirectory">>)}
    ELSE IF ~IsDir(fs, dir) THEN {Err("io", <<"NotFound">>)}
    ELSE IF dir \in fs.denied THEN {Err("io", <<"PermissionDenied">>)}
    ELSE {Ok(l) : l \in Perms(Entries(fs, dir))}

\* The test search applies to a directory entry that is not a directory.
IsCandidate(fs, entry, term) ==
    /\ IsFile(fs, entry)
    /\ Extension(Last(entry)) = S_kuiper
    /\ Contains(PathToStr(entry), term)

\* The for loop of search over the entries of one directory.
ScanEntries(fs, contents, dirs, matches, term) ==
    [dirs |-> dirs \o SelectSeq(contents, LAMBDA p : IsDir(fs, p)),
     matches |-> matches \o SelectSeq(contents,
                                     LAMBDA p : ~IsDir(fs, p) /\ IsCandidate(fs, p, term))]

RECURSIVE Walk(_, _, _, _)
\* The while loop of search: dirs is the queue, matches the paths collected.
\* The set of the ways the walk can end, one for every way the directories
\* can list their entries.
WalkStep(fs, st, term) == Walk(fs, st.dirs, st.matches, term)
WalkListed(fs, contents, dirs, matches, term) ==
    IF ~contents.ok THEN {FromIoError(contents)}
    ELSE WalkStep(fs, ScanEntries(fs, contents.val, dirs, matches, term), term)
Walk(fs, dirs, matches, term) ==
    IF dirs = <<>> THEN {Ok(matches)}
    ELSE UNION {WalkListed(fs, contents, Tail(dirs), matches, term) :
                   contents \in ReadDir(fs, Head(dirs))}

RECURSIVE FindAll(_, _, _, _, _, _, _)
\* matches.into_iter().map(Self::find).collect::<Result<_, _>>()
FindAll(fs, cwd, matches, e, g, ord, acc) ==
    IF matches = <<>> THEN Ok(acc)
    ELSE Try(find(fs, cwd, [abs |-> TRUE, comps |-> Head(matches)], e, g, ord),
             LAMBDA r : FindAll(fs, cwd, Tail(matches), e, r.gen, ord, Append(acc, r.val)))

\* What search returns: the KuiperResult and the outcome of the walk.
Searched(r, w) ==
    IF r.ok THEN [ok |-> TRUE, val |-> r.val, walk |-> w]
    ELSE [ok |-> FALSE, err |-> r.err, walk |-> w]

\* search from the end of the walk on.
SearchWalked(fs, cwd, w, e, g, ord) ==
    IF ~w.ok THEN Searched(w, w)
    ELSE Searched(FindAll(fs, cwd, w.val, e, g, ord, <<>>), w)

\* Request::search with an absolute root: the results it can return.
search(fs, cwd, root, term, e, g, ord) ==
    {SearchWalked(fs, cwd, w, e, g, ord) : w \in Walk(fs, <<root>>, <<>>, term)}

\* ------------------------------------------------------------ send_request
S_GET == <<"G", "E", "T">>
LowerLetters ==
    <<"a", "b", "c", "d", "e", "f", "g", "h", "i", "j", "k", "l", "m",
      "n", "o", "p", "q", "r", "s", "t", "u", "v", "w", "x", "y", "z">>
UpperLetters ==
    <<"A", "B", "C", "D", "E", "F", "G", "H", "I", "J", "K", "L", "M",
      "N", "O", "P", "Q", "R", "S", "T", "U", "V", "W", "X", "Y", "Z">>
AsciiAlpha == Range(LowerLetters) \cup Range(UpperLetters)
AsciiDigit == Range(Digits)
\* char::to_ascii_lowercase
LowerChar(c) ==
    IF c \in Range(UpperLetters)
    THEN LowerLetters[CHOOSE i \in 1..Len(UpperLetters) : UpperLetters[i] = c]
    ELSE c
Lowercase(s) == [i \in 1..Len(s) |-> LowerChar(s[i])]

\* Method::from_str(req.method()): a non-empty run of method characters (the
\* backquote, also one, is left out of the alphabet).
MethodChars ==
    AsciiAlpha \cup AsciiDigit
      \cup {"!", "#", "$", "%", "&", "'", "*", "+", "-", ".", "^", "_", "|", "~"}
MethodOk(method) == method # <<>> /\ \A i \in 1..Len(method) : method[i] \in MethodChars

\* client.request(method, req.uri()) parses the uri with Url::parse and keeps
\* it only if the URL has a host (reqwest's IntoUrl).  The operators below
\* follow the URL parser for URIs of printable ASCII characters whose host
\* has no '%', no bracketed IPv6 address and no punycode ("xn--") label.
RECURSIVE TrimStart(_)
TrimStart(s) == IF s # <<>> /\ s[1] = " " THEN TrimStart(Tail(s)) ELSE s
RECURSIVE TrimEnd(_)
TrimEnd(s) == IF s # <<>> /\ Last(s) = " " THEN TrimEnd(Front(s)) ELSE s

RECURSIVE SchemeEnd(_, _)
\* The position of the ':' that ends the scheme of s, scanning from i; 0 when
\* s does not start with a scheme ("relative URL without a base").
SchemeEnd(s, i) ==
    IF i > Len(s) THEN 0
    ELSE IF s[i] = ":" THEN (IF i > 1 THEN i ELSE 0)
    ELSE IF i = 1 /\ s[i] \in AsciiAlpha THEN SchemeEnd(s, i + 1)
    ELSE IF i > 1 /\ s[i] \in AsciiAlpha \cup AsciiDigit \cup {"+", "-", "."}
    THEN SchemeEnd(s, i + 1)
    ELSE 0

S_http == <<"h", "t", "t", "p">>
S_https == <<"h", "t", "t", "p", "s">>
S_file == <<"f", "i", "l", "e">>
S_localhost == <<"l", "o", "c", "a", "l", "h", "o", "s", "t">>
SpecialSchemes ==
    {S_http, S_https, S_file, <<"w", "s">>, <<"w", "s", "s">>, <<"f", "t", "p">>}
Slashes(scheme) == IF scheme \in SpecialSchemes THEN {"/", BACKSLASH} ELSE {"/"}

RECURSIVE SkipSlashes(_)
\* After a special scheme other than file, any run of slashes precedes the authority.
SkipSlashes(s) ==
    IF s # <<>> /\ s[1] \in {"/", BACKSLASH} THEN SkipSlashes(Tail(s)) ELSE s

RECURSIVE TakeUntil(_, _)
\* The prefix of s before its first character in stops.
TakeUntil(s, stops) ==
    IF s = <<>> \/ s[1] \in stops THEN <<>>
    ELSE <<s[1]>> \o TakeUntil(Tail(s), stops)

\* What follows the scheme, from the authority on; None when the URL has no
\* authority.
AfterSlashes(scheme, rest) ==
    IF scheme \in SpecialSchemes \ {S_file} THEN Some(SkipSlashes(rest))
    ELSE IF Len(rest) >= 2 /\ rest[1] \in Slashes(scheme) /\ rest[2] \in Slashes(scheme)
    THEN Some(Skip(rest, 2))
    ELSE None

\* The authority: up to the first slash, '?' or '#'.
Authority(scheme, rest) ==
    IF AfterSlashes(scheme, rest) = None THEN None
    ELSE Some(TakeUntil(AfterSlashes(scheme, rest)[1], Slashes(scheme) \cup {"?", "#"}))

RECURSIVE AfterLast(_, _)
\* The part of s after the last c, all of s when c does not occur.
AfterLast(s, c) ==
    IF \E i \in 1..Len(s) : s[i] = c THEN AfterLast(Tail(s), c) ELSE s

\* Host and port of an authority.  The userinfo ends at the last '@' and the
\* port starts at the first ':' after it (what follows a backslash after the
\* port of a scheme that is not special is path); a file URL has neither, its whole
\* authority is the host.
HostPort(scheme, authority) ==
    IF scheme = S_file THEN authority ELSE AfterLast(authority, "@")
HostOf(scheme, authority) ==
    IF scheme = S_file THEN authority
    ELSE TakeUntil(HostPort(scheme, authority), {":"})
HasPort(scheme, authority) ==
    Len(HostOf(scheme, authority)) < Len(HostPort(scheme, authority))
\* parse_port reads on from the ':' and stops at a slash of either kind, a
\* '?' or a '#', whatever the scheme.
PortOf(scheme, authority) ==
    TakeUntil(Skip(HostPort(scheme, authority), Len(HostOf(scheme, authority)) + 1),
              {"/", BACKSLASH, "?", "#"})

HexDigits == Digits \o <<"a", "b", "c", "d", "e", "f">>
\* c is a digit of radix r
DigitIn(c, r) == \E i \in 1..r : HexDigits[i] = c
DigitValue(c) == (CHOOSE i \in 1..Len(HexDigits) : HexDigits[i] = c) - 1
IsNumber(s) == s # <<>> /\ \A i \in 1..Len(s) : s[i] \in AsciiDigit

\* A u32 is kept as <<high, low>> 16-bit halves; a high half of 2^16 or more
\* stands for a number that does not fit.
U32Overflowed(n) == n[1] >= 65536
U32Push(n, r, d) ==
    IF U32Overflowed(n) THEN n
    ELSE <<n[1] * r + ((n[2] * r + d) \div 65536), (n[2] * r + d) % 65536>>
RECURSIVE U32FromStrRadix(_, _, _)
\* u32::from_str_radix(digits, r), continuing from n
U32FromStrRadix(digits, r, n) ==
    IF digits = <<>> THEN n
    ELSE U32FromStrRadix(Tail(digits), r, U32Push(n, r, DigitValue(digits[1])))

\* A port is empty or a decimal number below 2^16.
PortOk(port) ==
    port = <<>> \/ (IsNumber(port) /\ U32FromStrRadix(port, 10, <<0, 0>>)[1] = 0)

RECURSIVE Labels(_)
\* host.split('.')
Labels(host) ==
    IF \E i \in 1..Len(host) : host[i] = "."
    THEN <<TakeUntil(host, {"."})>> \o Labels(Skip(host, Len(TakeUntil(host, {"."})) + 1))
    ELSE <<host>>

\* parse_ipv4number: a part is hexadecimal after "0x", octal after another
\* leading "0", decimal otherwise; "0x" alone is zero.
Ipv4Radix(part) ==
    IF Len(part) >= 2 /\ part[1] = "0" /\ part[2] = "x" THEN 16
    ELSE IF Len(part) >= 2 /\ part[1] = "0" THEN 8
    ELSE 10
Ipv4Digits(part) ==
    IF Ipv4Radix(part) = 16 THEN Skip(part, 2)
    ELSE IF Ipv4Radix(part) = 8 THEN Skip(part, 1)
    ELSE part
Ipv4NumberOk(part) ==
    /\ part # <<>>
    /\ \A i \in 1..Len(Ipv4Digits(part)) : DigitIn(Ipv4Digits(part)[i], Ipv4Radix(part))
Ipv4Number(part) == U32FromStrRadix(Ipv4Digits(part), Ipv4Radix(part), <<0, 0>>)

\* ends_in_a_number: the last label, or the one before an empty last label,
\* is all digits or a number of some radix.
LastLabel(labels) ==
    IF Last(labels) = <<>> /\ Len(labels) >= 2 THEN labels[Len(labels) - 1]
    ELSE Last(labels)
EndsInNumber(host) ==
    IsNumber(LastLabel(Labels(host))) \/ Ipv4NumberOk(LastLabel(Labels(host)))
\* The parts of an IPv4 host: its labels without one trailing empty label.
Ipv4Parts(host) == IF Last(Labels(host)) = <<>> THEN Front(Labels(host)) ELSE Labels(host)
\* The last of n parts fills the 5 - n low bytes of the address.
Ipv4LastFits(n, parts) ==
    IF parts = 1 THEN ~U32Overflowed(n)
    ELSE IF parts = 2 THEN n[1] <= 255
    ELSE IF parts = 3 THEN n[1] = 0
    ELSE n[1] = 0 /\ n[2] <= 255
\* parse_ipv4addr: at most four numbers, each but the last below 256, the
\* last within the bytes that remain.
Ipv4Ok(parts) ==
    /\ Len(parts) <= 4
    /\ \A i \in 1..Len(parts) : Ipv4NumberOk(parts[i]) /\ ~U32Overflowed(Ipv4Number(parts[i]))
    /\ \A i \in 1..(Len(parts) - 1) :
          Ipv4Number(parts[i])[1] = 0 /\ Ipv4Number(parts[i])[2] <= 255
    /\ Ipv4LastFits(Ipv4Number(Last(parts)), Len(parts))

ForbiddenHostChars ==
    {" ", "#", "/", ":", "<", ">", "?", "@", "[", BACKSLASH, "]", "^", "|"}
\* The host of a special scheme is a domain, lowercased (or an IPv4 address
\* when it ends in a number); that of another scheme is opaque.
DomainOk(host) ==
    /\ \A i \in 1..Len(host) : host[i] # "%"
    /\ EndsInNumber(host) => Ipv4Ok(Ipv4Parts(host))
HostOk(scheme, host) ==
    /\ host # <<>>
    /\ \A i \in 1..Len(host) : host[i] \notin ForbiddenHostChars
    /\ scheme \in SpecialSchemes => DomainOk(Lowercase(host))
    /\ scheme = S_file => Lowercase(host) # S_localhost

\* Url::parse(uri) succeeds and the URL has a host.
SchemedUrlHasHost(scheme, rest) ==
    /\ Authority(scheme, rest) # None
    /\ HostOk(scheme, HostOf(scheme, Authority(scheme, rest)[1]))
    /\ HasPort(scheme, Authority(scheme, rest)[1]) =>
          PortOk(PortOf(scheme, Authority(scheme, rest)[1]))
TrimmedUrlHasHost(s, colon) ==
    /\ colon > 0
    /\ SchemedUrlHasHost(Lowercase(SubSeq(s, 1, colon - 1)), Skip(s, colon))
UrlHasHost(uri) == TrimmedUrlHasHost(TrimEnd(TrimStart(uri)), SchemeEnd(TrimEnd(TrimStart(uri)), 1))
UrlScheme(uri) ==
    Lowercase(SubSeq(TrimStart(uri), 1, SchemeEnd(TrimEnd(TrimStart(uri)), 1) - 1))

\* The lines send_request prints: the request's name and the status of the
\* response once the response's head has arrived, its text once the body has.
PrintedHead(req) == <<[line |-> "name", of |-> req.name], [line |-> "status", of |-> req.name]>>
Printed(req) == PrintedHead(req) \o <<[line |-> "text", of |-> req.name]>>

\* What can follow client.execute(request): execute fails and its unwrap()
\* panics; the head arrives and is printed but reading the body fails, and
\* response.text().unwrap() panics; or the whole response is printed.  A
\* scheme other than http and https fails in execute without any exchange.
Exchanges(req) ==
    {[sent |-> <<req>>, stdout |-> <<>>, stderr |-> <<>>, pc |-> "panicked"]}
      \cup (IF UrlScheme(req.uri) \in {S_http, S_https}
            THEN {[sent |-> <<req>>, stdout |-> PrintedHead(req), stderr |-> <<>>,
                   pc |-> "panicked"],
                  [sent |-> <<req>>, stdout |-> Printed(req), stderr |-> <<>>,
                   pc |-> "exit"]}
            ELSE {})

\* send_request: the ways it can end.  Method::from_str(..).unwrap() panics on
\* a method that is no HTTP method, request.build().unwrap() on a uri that is
\* no URL with a host; nothing is handed to the client then.  (Header names
\* are h1 and h2 and header values hold visible characters, so no header is
\* rejected.)  A built request is handed to client.execute.
send_request(req) ==
    IF ~MethodOk(req.method) \/ ~UrlHasHost(req.uri)
    THEN {[sent |-> <<>>, stdout |-> <<>>, stderr |-> <<>>, pc |-> "panicked"]}
    ELSE Exchanges(req)

RECURSIVE JoinWith(_, _)
\* [..].join(sep) over a sequence of strings
JoinWith(ss, sep) ==
    IF ss = <<>> THEN <<>>
    ELSE IF Len(ss) = 1 THEN ss[1]
    ELSE ss[1] \o sep \o JoinWith(Tail(ss), sep)

\* ================================================================= worlds
\* The inputs of the model: filesystems, hash orders, listing orders, strings.
HeaderNames == {"h1", "h2"}
ParamNames == {"p1"}
\* The orders a HashMap may iterate its keys in (headers and params are
\* separate maps, so only the relative order of h1 and h2 matters).
HashOrders == {<<"h1", "h2", "p1">>, <<"h2", "h1", "p1">>}

DirNames == <<<<"p">>, <<"s">>, <<"t">>, <<"u">>, <<"w">>>>
Chain(d) == SubSeq(DirNames, 1, d)
R_KUIPER == <<"r", ".", "k", "u", "i", "p", "e", "r">>
A_KUIPER == <<"a", ".", "k", "u", "i", "p", "e", "r">>
B_KUIPER == <<"b", ".", "k", "u", "i", "p", "e", "r">>
D_KUIPER == <<"d", ".", "k", "u", "i", "p", "e", "r">>
M_KUIPER == <<"m", ".", "k", "u", "i", "p", "e", "r">>
N_TXT == <<"n", ".", "t", "x", "t">>


Placeholder(kind, name) == OPEN \o kind \o <<":">> \o name \o CLOSE
Plain == <<"x">>

Req(uri, headers, params, body) ==
    [name |-> <<>>, uri |-> uri, headers |-> headers, params |-> params,
     method |-> S_GET, body |-> body]
RequestFile(r) == [kind |-> "request", req |-> r]
HeadersFile(m) == [kind |-> "headers", map |-> m]
TextFile == [kind |-> "text"]

\* A filesystem from its directories, its <<path, content>> entries and the
\* unreadable paths.
MkFs(dirs, entries, denied) ==
    [dirs |-> dirs,
     files |-> [p \in {en[1] : en \in entries} |->
                   (CHOOSE en \in entries : en[1] = p)[2]],
     denied |-> denied]

\* One optional key of a map.
Opt(k, vals) == {<<>>} \cup {k :> v : v \in vals}

\* --- scenario "strings": the inputs of interpolate_str
InputTokens ==
    { Plain, OPEN, CLOSE, <<":">>,
      Placeholder(S_env, <<"A">>), Placeholder(S_env, <<"M">>),
      Placeholder(S_env, <<"N">>),
      Placeholder(S_env, <<"R">>), Placeholder(S_expr, S_uuid),
      Placeholder(S_expr, S_now), Placeholder(S_expr, <<"z">>),
      Placeholder(<<"b", "a", "d">>, <<"x">>), Placeholder(<<"n", "v">>, <<"A">>),
      OPEN \o <<"e">>, OPEN \o S_env \o <<":">> }
TokenSeqs == UNION {[1..n -> InputTokens] : n \in 0..MaxTokens}
Inputs == {Flatten(ts) : ts \in TokenSeqs}

BareFs == MkFs({<<>>}, {}, {})

\* --- scenario "merge": a chain of MaxDepth directories, each with an optional
\* headers.json, and the same request file at every level.
LevelValue(k) == <<"v", Digits[k + 1]>>
LevelHeaders(k) ==
    { None, Some(TextFile),
      Some(HeadersFile("h1" :> None)),
      Some(HeadersFile("h1" :> Some(LevelValue(k)))),
      Some(HeadersFile("h2" :> Some(LevelValue(k)))),
      Some(HeadersFile(("h1" :> Some(LevelValue(k))) @@ ("h2" :> Some(LevelValue(k))))) }
OwnHeaders ==
    { a @@ b : a \in Opt("h1", {None, Some(<<"f">>)}),
               b \in Opt("h2", {Some(Placeholder(S_env, <<"A">>))}) }
RootHeaders == HeadersFile(("h1" :> Some(LevelValue(0))) @@ ("h2" :> Some(LevelValue(0))))

MergeFs(levels, own) ==
    MkFs({Chain(d) : d \in 0..MaxDepth},
         {<<<<HEADERS_JSON>>, RootHeaders>>}
           \cup {<<Append(Chain(k), HEADERS_JSON), levels[k][1]>> :
                    k \in {j \in 1..MaxDepth : levels[j] # None}}
           \cup {<<Append(Chain(d), R_KUIPER), RequestFile(Req(Plain, own, <<>>, None))>> :
                    d \in 0..MaxDepth},
         {})
MergeWorlds ==
    {MergeFs(levels, own) :
        levels \in {f \in [1..MaxDepth -> UNION {LevelHeaders(k) : k \in 1..MaxDepth}] :
                       \A k \in 1..MaxDepth : f[k] \in LevelHeaders(k)},
        own \in OwnHeaders}

\* --- scenario "fields": one request file whose fields hold placeholders
FieldRequests ==
    { Req(uri, h1 @@ h2, p1, body) :
        uri \in {Plain, Placeholder(S_env, <<"U">>)},
        h1 \in Opt("h1", {None, Some(Plain), Some(Placeholder(S_expr, <<"h">>))}),
        h2 \in Opt("h2", {Some(Placeholder(S_expr, <<"g">>))}),
        p1 \in Opt("p1", {Plain, Placeholder(<<"b", "a", "d">>, <<"x">>)}),
        body \in { None, Some(Plain), Some(<<"a", QUOTE, BACKSLASH>>),
                   Some(Placeholder(S_env, <<"A">>)), Some(Placeholder(S_env, <<"Q">>)),
                   Some(Placeholder(S_env, <<"B">>)), Some(Placeholder(S_expr, S_uuid)) } }
FieldPath == Append(Chain(1), R_KUIPER)
FieldWorlds ==
    {MkFs({<<>>, Chain(1)}, {<<FieldPath, RequestFile(r)>>}, {}) : r \in FieldRequests}
    \cup {MkFs({<<>>, Chain(1)},
                {<<FieldPath, c>>, <<Append(Chain(1), HEADERS_JSON), RootHeaders>>}, d) :
            c \in {TextFile, RequestFile(Req(Plain, <<>>, <<>>, None))},
            d \in {{}, {FieldPath}, {Append(Chain(1), HEADERS_JSON)}}}

\* --- scenario "tree": a directory tree to search
S_URL == <<"h", "t", "t", "p", ":", "/", "/", "h">>
GoodRequest == RequestFile(Req(S_URL, <<>>, <<>>, Some(Plain)))
NoMethodRequest == RequestFile([Req(S_URL, <<>>, <<>>, None) EXCEPT !.method = <<>>])
\* Its uri is set by the env file only.
BadRequest == RequestFile(Req(Placeholder(S_env, <<"M">>), <<>>, <<>>, None))
\* A uri that is no absolute URL, one of a scheme the client does not speak,
\* and one that names the variable main sets.
RelativeUriRequest == RequestFile(Req(Plain, <<>>, <<>>, None))
MailUriRequest == RequestFile(Req(<<"a", ":", "/", "/", "h">>, <<>>, <<>>, None))
LogRequest ==
    RequestFile(Req(S_URL \o <<"/">> \o Placeholder(S_env, S_RUST_LOG), <<>>, <<>>, None))
TreeContents == {None, Some(GoodRequest), Some(TextFile), Some(BadRequest)}
\* The env files main is given: none, one that does not exist, one that does
\* not parse, and one that sets M, A and N.
EnvFiles == {"none", "missing", "malformed", "vars"}
EnvFileVars ==
    (<<"M">> :> (S_URL \o <<"/", "m">>)) @@ (<<"A">> :> <<"2">>) @@ (<<"N">> :> <<"3">>)
TreeDirs == {<<>>, Chain(1), Chain(2), Append(Chain(1), D_KUIPER)}
TreeFs(c1, c2, c3, denied) ==
    MkFs(TreeDirs,
         {<<Append(Append(Chain(1), D_KUIPER), N_TXT), TextFile>>,
          <<Append(Chain(1), HEADERS_JSON), HeadersFile("h1" :> Some(LevelValue(1)))>>,
          <<Append(Chain(2), HEADERS_JSON), HeadersFile("h2" :> Some(LevelValue(2)))>>}
           \cup (IF c1 = None THEN {} ELSE {<<Append(Chain(1), A_KUIPER), c1[1]>>})
           \cup (IF c2 = None THEN {} ELSE {<<Append(Chain(2), A_KUIPER), c2[1]>>})
           \cup (IF c3 = None THEN {} ELSE {<<Append(Chain(2), B_KUIPER), c3[1]>>}),
         denied)
TreeWorlds ==
    {TreeFs(c1, c2, c3, d) :
        c1 \in TreeContents \cup {Some(NoMethodRequest), Some(RelativeUriRequest),
                                  Some(MailUriRequest), Some(LogRequest)},
        c2 \in TreeContents,
        c3 \in TreeContents, d \in {{}, {Chain(2)}}}

\* The search terms tried.
Terms ==
    { <<>>, <<"a">>, <<"b">>, <<"A">>, <<"z">>, <<"n">>, <<"s", SEP, "a">>,
      <<".", "k">>, PathToStr(Chain(1)) \o <<SEP, "a">> }

\* --- arguments derived from a filesystem
IsPrefix(c, p) == Len(c) <= Len(p) /\ SubSeq(p, 1, Len(c)) = c
KuiperFiles(fs) == {p \in DOMAIN fs.files : Extension(Last(p)) = S_kuiper}
Targets(fs) ==
    KuiperFiles(fs) \cup (fs.dirs \ {<<>>})
      \cup {Append(d, M_KUIPER) : d \in {c \in fs.dirs : Len(c) <= 1}}
      \cup {p \in DOMAIN fs.files : Last(p) = N_TXT}
AbsArg(p) == [abs |-> TRUE, comps |-> p]
RelArg(c, p) == [abs |-> FALSE, comps |-> Skip(p, Len(c))]
RelArgs(fs, c) == {RelArg(c, p) : p \in {t \in Targets(fs) : IsPrefix(c, t) /\ t # c}}

\* ================================================================== state
VARIABLES
    scenario,   \* which family of inputs the filesystem was drawn from
    fs,         \* the filesystem
    env,        \* the process environment
    ord,        \* the iteration order of the HashMaps of this run
    call,       \* the operation invoked and its arguments
    ret,        \* what it returned
    pc,         \* "idle", "returned", and the positions of main
    sent,       \* the requests handed to the HTTP client
    stdout,     \* the lines main printed of a response
    stderr      \* the messages main reported with eprintln!

vars == <<scenario, fs, env, ord, call, ret, pc, sent, stdout, stderr>>

NoCall == [op |-> "none"]
NoRet == [ok |-> FALSE, err |-> [kind |-> "none", arg |-> <<>>]]

\* Before a call: a filesystem and a hash order drawn from one
\* of the families above; nothing called, nothing sent, nothing reported.
Init ==
    /\ \/ scenario = "strings" /\ fs = BareFs /\ ord = <<"h1", "h2", "p1">>
       \/ scenario = "merge" /\ fs \in MergeWorlds /\ ord = <<"h1", "h2", "p1">>
       \/ scenario = "fields" /\ fs \in FieldWorlds /\ ord \in HashOrders
       \/ scenario = "tree" /\ fs \in TreeWorlds /\ ord = <<"h1", "h2", "p1">>
    /\ env = ProcessEnv
    /\ call = NoCall
    /\ ret = NoRet
    /\ pc = "idle"
    /\ sent = <<>>
    /\ stdout = <<>>
    /\ stderr = <<>>

\* A caller invokes Request::interpolate_str(input).
InterpolateStr ==
    /\ pc = "idle" /\ scenario = "strings"
    /\ \E input \in Inputs :
         /\ call' = [op |-> "interpolate_str", input |-> input]
         /\ ret' = interpolate_str(input, env, Gen0)
    /\ pc' = "returned"
    /\ UNCHANGED <<scenario, fs, env, ord, sent, stdout, stderr>>

\* A caller invokes Request::find(path) from the current directory cwd.
Find ==
    /\ pc = "idle" /\ scenario # "strings"
    /\ \E c \in fs.dirs :
         \E arg \in RelArgs(fs, c) \cup (IF c = <<>> THEN {AbsArg(p) : p \in Targets(fs)} ELSE {}) :
            /\ call' = [op |-> "find", cwd |-> c, arg |-> arg]
            /\ ret' = find(fs, c, arg, env, Gen0, ord)
    /\ pc' = "returned"
    /\ UNCHANGED <<scenario, fs, env, ord, sent, stdout, stderr>>

\* A caller invokes Request::search(root, term).
Search ==
    /\ pc = "idle" /\ scenario = "tree"
    /\ \E root \in (fs.dirs \ {Append(Chain(1), D_KUIPER)})
                     \cup {Append(Append(Chain(1), D_KUIPER), N_TXT),
                           Append(Chain(1), M_KUIPER)} :
         \E term \in Terms :
            /\ call' = [op |-> "search", root |-> root, term |-> term]
            /\ ret' \in search(fs, <<>>, root, term, env, Gen0, ord)
    /\ pc' = "returned"
    /\ UNCHANGED <<scenario, fs, env, ord, sent, stdout, stderr>>


\* The String given as main's path argument.
ArgString(arg) == (IF arg.abs THEN <<SEP>> ELSE <<>>) \o JoinWith(arg.comps, <<SEP>>)
\* dir.join(file_path): an absolute path replaces dir.
JoinPath(dir, arg) == IF arg.abs THEN arg.comps ELSE dir \o arg.comps

\* The arguments main is run with in a filesystem: dir is the -d directory (or
\* the current directory), path the path or search term.
MainArgs(w) ==
    {[dir |-> d, path |-> a] :
        d \in w.dirs \ {Append(Chain(1), D_KUIPER)},
        a \in {RelArg(<<>>, p) : p \in {<<<<"a">>>>, <<<<"b">>>>, <<<<"z">>>>,
                                            <<DirNames[2], <<"a">>>>}}
              \cup {AbsArg(Append(Chain(1), A_KUIPER))}}
    \cup UNION {{[dir |-> d, path |-> a] : a \in RelArgs(w, d)} :
                   d \in w.dirs \ {Append(Chain(1), D_KUIPER)}}

\* main, lines 17-39: the arguments are parsed, the env file (if any) is
\* loaded into the process environment, and the path is canonicalized.  An
\* env file that does not exist is reported; one that does not parse panics
\* in dotenv::from_path(..).unwrap().
MainLocate ==
    /\ pc = "idle" /\ scenario = "tree"
    /\ \E args \in MainArgs(fs), env_file \in EnvFiles :
         /\ call' = [op |-> "main", dir |-> args.dir, path |-> args.path,
                     env_file |-> env_file]
         /\ IF env_file = "missing"
            THEN /\ stderr' = <<[msg |-> "failed to read env file", names |-> <<>>]>>
                 /\ ret' = NoRet
                 /\ pc' = "exit"
                 /\ env' = env
            ELSE IF env_file = "malformed"
            THEN /\ stderr' = stderr
                 /\ ret' = NoRet
                 /\ pc' = "panicked"
                 /\ env' = env
            ELSE /\ stderr' = stderr
                 /\ ret' = Canonicalize(fs, JoinPath(args.dir, args.path))
                 /\ pc' = IF Canonicalize(fs, JoinPath(args.dir, args.path)).ok
                          THEN "find" ELSE "search"
                 /\ env' = IF env_file = "vars" THEN LoadEnv(env, EnvFileVars) ELSE env
    /\ UNCHANGED <<scenario, fs, ord, sent, stdout>>

\* The arm of main's find branch for the result r of Request::find.
SendOrReport(r) ==
    IF r.ok THEN send_request(r.val)
    ELSE {[sent |-> <<>>, stdout |-> <<>>, pc |-> "exit",
           stderr |-> <<[msg |-> "failed to parse request", names |-> <<>>]>>]}

\* main, lines 40-54: the path exists; RUST_LOG is set if it is not, the
\* request is found and sent.
MainFind ==
    /\ pc = "find"
    /\ env' = WithRustLog(env)
    /\ ret' = find(fs, call.dir, AbsArg(ret.val), WithRustLog(env), Gen0, ord)
    /\ \E o \in SendOrReport(find(fs, call.dir, AbsArg(ret.val), WithRustLog(env), Gen0, ord)) :
         /\ sent' = sent \o o.sent
         /\ stdout' = stdout \o o.stdout
         /\ stderr' = stderr \o o.stderr
         /\ pc' = o.pc
    /\ UNCHANGED <<scenario, fs, ord, call>>

\* ReportOrSend sending the first of several candidates.
ReportOrSendFirst(m) ==
    IF Len(m) = 0
    THEN {[sent |-> <<>>, stdout |-> <<>>, pc |-> "exit",
           stderr |-> <<[msg |-> "no request found for that term", names |-> <<>>]>>]}
    ELSE send_request(m[1])

\* The arm of main's search branch for the candidates m.
ReportOrSend(m) ==
    IF Len(m) = 0
    THEN {[sent |-> <<>>, stdout |-> <<>>, pc |-> "exit",
           stderr |-> <<[msg |-> "no request found for that term", names |-> <<>>]>>]}
    ELSE IF Len(m) > 1
    THEN {[sent |-> <<>>, stdout |-> <<>>, pc |-> "exit",
           stderr |-> <<[msg |-> "multiple candidate requests for term",
                         names |-> [i \in 1..Len(m) |-> m[i].name]]>>]}
    ELSE send_request(m[1])

\* The end of main's search branch for the result r of Request::search:
\* expect("failed to search") panics on an error.
SearchOutcomes(r) ==
    IF r.ok THEN ReportOrSend(r.val)
    ELSE {[sent |-> <<>>, stdout |-> <<>>, stderr |-> <<>>, pc |-> "panicked"]}

\* main, lines 55-70: the path does not exist; search instead of find.
MainSearch ==
    /\ pc = "search"
    /\ \E r \in search(fs, call.dir, call.dir, ArgString(call.path), env, Gen0, ord) :
       \E o \in SearchOutcomes(r) :
         /\ ret' = r
         /\ sent' = sent \o o.sent
         /\ stdout' = stdout \o o.stdout
         /\ stderr' = stderr \o o.stderr
         /\ pc' = o.pc
    /\ UNCHANGED <<scenario, fs, env, ord, call>>

\* ================================================================= claims
NoErr == [kind |-> "none", arg |-> <<>>]
MinOf(S) == CHOOSE i \in S : \A j \in S : i <= j
MaxOf(S) == CHOOSE i \in S : \A j \in S : j <= i

\* --- interpolate_str, read off the input alone
StrReturned == call.op = "interpolate_str" /\ pc = "returned"
\* The nearest close marker at or after position s; 0 when there is none.
NearestClose(input, s) ==
    LET cs == {c \in s..Len(input) : MatchesAt(input, CLOSE, c)}
    IN  IF cs = {} THEN 0 ELSE MinOf(cs)
PlaceholderText(input, s) == SubSeq(input, s + 2, NearestClose(input, s) - 1)
FirstColon(text) ==
    LET cs == {c \in 1..Len(text) : text[c] = ":"}
    IN  IF cs = {} THEN 0 ELSE MinOf(cs)
KindOf(text) == SubSeq(text, 1, FirstColon(text) - 1)
NameOf(text) == SubSeq(text, FirstColon(text) + 1, Len(text))
\* The error the placeholder of the open marker at s must yield; NoErr when it
\* resolves to a value.
ExpectedErr(input, s, e) ==
    LET text == PlaceholderText(input, s)
    IN  IF NearestClose(input, s) = 0 THEN InvalidFormat.err
        ELSE IF FirstColon(text) = 0 THEN InvalidFormat.err
        ELSE IF KindOf(text) = S_env
             THEN (IF NameOf(text) \in DOMAIN e /\ e[NameOf(text)].unicode THEN NoErr
                   ELSE MissingEnvVar(NameOf(text)).err)
        ELSE IF KindOf(text) = S_expr
             THEN (IF NameOf(text) \in {S_uuid, S_now} THEN NoErr
                   ELSE InvalidExpr(NameOf(text)).err)
        ELSE InvalidFormat.err
Markers(input) == MatchIndices(input, OPEN)
FailingMarkers(input, e) ==
    {i \in 1..Len(Markers(input)) : ExpectedErr(input, Markers(input)[i], e) # NoErr}
\* The input is exactly one placeholder {{text}}.
SinglePlaceholder(input) ==
    /\ Markers(input) = <<1>>
    /\ NearestClose(input, 1) = Len(input) - 1

\* Several placeholders, each resolving to a value, none inside another.
SeveralWellFormed(input, e) ==
    /\ Len(Markers(input)) >= 2
    /\ FailingMarkers(input, e) = {}
    /\ \A i \in 1..(Len(Markers(input)) - 1) :
          Markers(input)[i + 1] > NearestClose(input, Markers(input)[i]) + 1
RECURSIVE Spanwise(_, _, _, _, _)
\* The input with the span of every placeholder replaced, left to right, by
\* the value of its own evaluation.
Spanwise(input, starts, pos, e, g) ==
    IF starts = <<>> THEN SubSeq(input, pos, Len(input))
    ELSE LET p == PlaceholderAt(input, Head(starts), e, g)
         IN  SubSeq(input, pos, Head(starts) - 1) \o p.val
             \o Spanwise(input, Tail(starts), Head(starts) + Len(p.span), e, p.gen)
\* C2: a string of several well-formed placeholders comes back with each
\* placeholder's own span replaced by the value of its own evaluation, and
\* nothing else changed.
C2_EachSpanReplacedByItsOwnValue ==
    (StrReturned /\ SeveralWellFormed(call.input, env))
        => /\ ret.ok
           /\ ret.val = Spanwise(call.input, Markers(call.input), 1, env, Gen0)

UuidTexts == {UuidText(k) : k \in 0..9}
NowTexts == {NowText(k) : k \in 0..9}
\* The variable is set and its value is Unicode text.
Readable(name) == name \in DOMAIN env /\ env[name].unicode
\* What a placeholder of a kind other than env must give: expr uuid/now -> a
\* value; expr other -> InvalidExpr(name); another kind or no ':' -> InvalidFormat.
OtherKinds(text) ==
    IF FirstColon(text) = 0 THEN ret = InvalidFormat
    ELSE IF KindOf(text) = S_expr THEN
        IF NameOf(text) = S_uuid THEN ret.ok /\ ret.val \in UuidTexts
        ELSE IF NameOf(text) = S_now THEN ret.ok /\ ret.val \in NowTexts
        ELSE ret = InvalidExpr(NameOf(text))
    ELSE ret = InvalidFormat
IsEnv(text) == FirstColon(text) # 0 /\ KindOf(text) = S_env
\* InvalidFormat is reported only for a syntax problem of some placeholder.
FormatOnlyForSyntax ==
    (~ret.ok /\ ret.err.kind = "InterpolationError::InvalidFormat") =>
        \E i \in 1..Len(Markers(call.input)) :
           LET t == PlaceholderText(call.input, Markers(call.input)[i])
           IN  \/ NearestClose(call.input, Markers(call.input)[i]) = 0
               \/ FirstColon(t) = 0
               \/ KindOf(t) \notin {S_env, S_expr}
\* The env placeholders of the input whose name is the one MissingEnvVar reports.
Reported ==
    {t \in {PlaceholderText(call.input, Markers(call.input)[i]) :
               i \in {j \in 1..Len(Markers(call.input)) :
                         NearestClose(call.input, Markers(call.input)[j]) # 0}} :
        IsEnv(t) /\ NameOf(t) = ret.err.arg}

\* C3 as claimed: a placeholder {{kind:name}} resolves or fails by its kind and
\* name alone: env and set -> the variable's value; env and unset ->
\* MissingEnvVar(name); expr uuid/now -> a value; expr other ->
\* InvalidExpr(name); another kind or no ':' -> InvalidFormat.  MissingEnvVar
\* is reported only for an unset variable of an env placeholder, InvalidFormat
\* only for a syntax problem.
C3_Claimed_SetResolves ==
    StrReturned =>
      /\ SinglePlaceholder(call.input) =>
            IF IsEnv(PlaceholderText(call.input, 1))
            THEN IF NameOf(PlaceholderText(call.input, 1)) \in DOMAIN env
                 THEN ret.ok /\ ret.val = env[NameOf(PlaceholderText(call.input, 1))].text
                 ELSE ret = MissingEnvVar(NameOf(PlaceholderText(call.input, 1)))
            ELSE OtherKinds(PlaceholderText(call.input, 1))
      /\ (~ret.ok /\ ret.err.kind = "InterpolationError::MissingEnvVar") =>
            \E t \in Reported : NameOf(t) \notin DOMAIN env
      /\ FormatOnlyForSyntax
\* C3 as amended: env and set to Unicode text -> the variable's value; env and
\* unset, or set to a value that is not valid Unicode -> MissingEnvVar(name);
\* the other kinds as claimed.  MissingEnvVar is reported only for an env
\* placeholder whose variable is unset or not Unicode, InvalidFormat only for
\* a syntax problem.
C3_PlaceholderDispatch ==
    StrReturned =>
      /\ SinglePlaceholder(call.input) =>
            IF IsEnv(PlaceholderText(call.input, 1))
            THEN IF Readable(NameOf(PlaceholderText(call.input, 1)))
                 THEN ret.ok /\ ret.val = env[NameOf(PlaceholderText(call.input, 1))].text
                 ELSE ret = MissingEnvVar(NameOf(PlaceholderText(call.input, 1)))
            ELSE OtherKinds(PlaceholderText(call.input, 1))
      /\ (~ret.ok /\ ret.err.kind = "InterpolationError::MissingEnvVar") =>
            \E t \in Reported : ~Readable(NameOf(t))
      /\ FormatOnlyForSyntax
\* The placeholder {{env:N}} of a variable set to a value that is not valid
\* Unicode was interpolated.
C3_Witness ==
    /\ StrReturned
    /\ call.input = Placeholder(S_env, <<"N">>)
    /\ <<"N">> \in DOMAIN env
    /\ ret = MissingEnvVar(<<"N">>)

\* C9: every open marker is paired with the nearest close marker after it (its
\* placeholder text may hold a later open marker), an open marker without a
\* close marker is InvalidFormat, and the error returned is that of the
\* leftmost open marker whose placeholder fails.
C9_NearestCloseLeftmostError ==
    StrReturned =>
      LET input == call.input
          failing == FailingMarkers(input, env)
      IN  /\ ret.ok <=> failing = {}
          /\ failing # {} =>
                ret.err = ExpectedErr(input, Markers(input)[MinOf(failing)], env)
          /\ input = <<"x">> \o OPEN \o S_env \o <<":">> \o Placeholder(S_env, <<"M">>)
                => ret = MissingEnvVar(OPEN \o S_env \o <<":", "M">>)
          /\ input = OPEN \o <<"e">> \o Placeholder(<<"n", "v">>, <<"A">>) \o CLOSE
                => ret = InvalidFormat
\* The first example of tests::interpolation_error_test was interpolated: an
\* open marker inside the placeholder text of an earlier one.
C9_Witness ==
    /\ StrReturned
    /\ call.input = <<"x">> \o OPEN \o S_env \o <<":">> \o Placeholder(S_env, <<"M">>)
    /\ ~ret.ok
    /\ ret.err.arg = OPEN \o S_env \o <<":", "M">>

\* --- Request::find, read off the filesystem
\* find was called (directly, or by main on the canonical path) and returned.
MainCanonical == Canonicalize(fs, JoinPath(call.dir, call.path))
FindReturned ==
    \/ call.op = "find" /\ pc = "returned"
    \/ /\ call.op = "main" /\ pc \in {"exit", "panicked"}
       /\ call.env_file \in {"none", "vars"} /\ MainCanonical.ok
\* The absolute path find works on.
FindPath ==
    IF call.op = "find"
    THEN (IF call.arg.abs THEN call.arg.comps ELSE call.cwd \o call.arg.comps)
    ELSE MainCanonical.val
\* The directory the path given to find is relative to: the current directory
\* of a direct call with a relative path, main's dir.
HasBase == call.op = "main" \/ (call.op = "find" /\ ~call.arg.abs)
BaseDir == IF call.op = "main" THEN call.dir ELSE call.cwd
\* The headers a directory declares; none without a headers.json.
DirHeaders(d) ==
    IF IsFile(fs, Append(d, HEADERS_JSON)) /\ fs.files[Append(d, HEADERS_JSON)].kind = "headers"
    THEN fs.files[Append(d, HEADERS_JSON)].map ELSE <<>>
OwnDeclared == fs.files[FindPath].req.headers
\* The value the most specific scope declaring h gives it.
MostSpecific(h, dirs) ==
    IF h \in DOMAIN OwnDeclared THEN OwnDeclared[h]
    ELSE DirHeaders(dirs[MaxOf({i \in 1..Len(dirs) : h \in DOMAIN DirHeaders(dirs[i])})])[h]
Interpolated(v) == IF v = None THEN None ELSE Some(interpolate_str(v[1], env, Gen0).val)

\* C1: after find, every header has the (interpolated) value of the most
\* specific scope declaring it: the file itself, also with a null value, else
\* the deepest consulted directory declaring it; the header names are the union
\* of the names the file and the consulted directories declare; a directory
\* without headers.json is no error.
C1_ClosestScopeWins ==
    FindReturned =>
      /\ (ret.ok =>
            /\ DOMAIN ret.val.headers =
                  DOMAIN OwnDeclared
                    \cup UNION {DOMAIN DirHeaders(ret.seen[i]) : i \in 1..Len(ret.seen)}
            /\ \A h \in DOMAIN ret.val.headers :
                  ret.val.headers[h] = Interpolated(MostSpecific(h, ret.seen)))
      /\ (~ret.ok /\ ret.stage = "overwrite_headers") =>
            IsFile(fs, Append(Last(ret.seen), HEADERS_JSON))
\* find succeeded on a file that declares h1 null and does not declare h2, below
\* two directories that both declare h1 and h2.
C1_Witness ==
    /\ FindReturned /\ ret.ok
    /\ Len(ret.seen) >= 2
    /\ "h1" \in DOMAIN OwnDeclared /\ OwnDeclared["h1"] = None
    /\ "h2" \notin DOMAIN OwnDeclared
    /\ \A i \in 1..2 : DOMAIN DirHeaders(ret.seen[i]) = {"h1", "h2"}
    /\ ret.val.headers["h1"] = None
    /\ ret.val.headers["h2"] = DirHeaders(ret.seen[Len(ret.seen)])["h2"]

\* C10 as claimed: find consults exactly the directories strictly below the
\* base directory down to the file's parent, outermost first.
AllLooked == FindReturned /\ ret.stage \notin {"canonicalize", "from_file", "overwrite_headers"}
C10_Claimed_OnlyBelowBase ==
    (AllLooked /\ HasBase /\ IsPrefix(BaseDir, FindPath)) =>
        ret.seen = [i \in 1..(Len(FindPath) - 1 - Len(BaseDir)) |->
                      SubSeq(FindPath, 1, Len(BaseDir) + i)]
\* C10 as amended: find consults exactly the ancestor directories of the
\* file's absolute path below the filesystem root, down to the file's parent,
\* each once, outermost first, whatever the base directory is.
C10_AllAncestorsBelowFsRoot ==
    FindReturned =>
      /\ AllLooked =>
            ret.seen = [i \in 1..(Len(FindPath) - 1) |-> SubSeq(FindPath, 1, i)]
      /\ ret.stage = "overwrite_headers" =>
            /\ Len(ret.seen) \in 1..(Len(FindPath) - 1)
            /\ ret.seen = [i \in 1..Len(ret.seen) |-> SubSeq(FindPath, 1, i)]
      /\ ret.stage \in {"canonicalize", "from_file"} => ret.seen = <<>>
\* main found a request two levels below the root with dir its parent: the base
\* directory and the directory above it were consulted.
C10_Witness ==
    /\ call.op = "main" /\ FindReturned /\ ret.ok
    /\ call.dir = Chain(2)
    /\ ret.seen = <<Chain(1), Chain(2)>>

\* --- Request::interpolate
\* The request as find hands it to interpolate: the file's request with the
\* inherited headers added.
Inherited ==
    OverwriteAll(fs, HeaderDirs(FindPath), [ok |-> TRUE, val |-> <<>>, seen |-> <<>>]).val
PreInterpolation ==
    [from_file(fs, FindPath).val EXCEPT !.headers = AddHeaders(@, Inherited, DOMAIN Inherited)]
ErrorsOfStr(v) ==
    IF interpolate_str(v, env, Gen0).ok THEN {} ELSE {interpolate_str(v, env, Gen0).err}
\* The errors the values of one field of req fail with.
FieldErrors(field, req) ==
    CASE field = "uri" -> ErrorsOfStr(req.uri)
      [] field = "headers" ->
           UNION {ErrorsOfStr(req.headers[h][1]) :
                     h \in {k \in DOMAIN req.headers : req.headers[k] # None}}
      [] field = "params" -> UNION {ErrorsOfStr(req.params[k]) : k \in DOMAIN req.params}
      [] field = "body" ->
           IF interpolate_body(req, env, Gen0).ok THEN {}
           ELSE {interpolate_body(req, env, Gen0).err}
\* find returns the error of the first field, in the given order, that fails,
\* and no request; it succeeds when no field fails.
FailsInOrder(order) ==
    AllLooked =>
      LET failing == {i \in 1..Len(order) : FieldErrors(order[i], PreInterpolation) # {}}
      IN  IF failing = {} THEN ret.ok
          ELSE /\ ~ret.ok
               /\ "val" \notin DOMAIN ret
               /\ ret.err \in FieldErrors(order[MinOf(failing)], PreInterpolation)

\* C4 as claimed: the fields are visited in the order URI, headers, params, body.
C4_Claimed_HeadersBeforeParams == FailsInOrder(<<"uri", "headers", "params", "body">>)
\* C4 as amended: the fields are visited in the order URI, params, headers,
\* body; the first failing placeholder in that order aborts find, which returns
\* that error and no request.
C4_ParamsBeforeHeaders == FailsInOrder(<<"uri", "params", "headers", "body">>)
\* A header, a param and the body would all fail; find returned the param's error.
C4_Witness ==
    /\ AllLooked /\ ~ret.ok
    /\ FieldErrors("uri", PreInterpolation) = {}
    /\ FieldErrors("headers", PreInterpolation) # {}
    /\ FieldErrors("params", PreInterpolation) # {}
    /\ FieldErrors("body", PreInterpolation) # {}
    /\ ret.err \in FieldErrors("params", PreInterpolation)
    /\ ret.err \notin FieldErrors("headers", PreInterpolation)

\* C5: a path that names no existing file makes find return RequestNotFound,
\* and IoError is returned only for a failure other than "does not exist".
C5_MissingFileIsRequestNotFound ==
    (call.op = "find" /\ pc = "returned") =>
      /\ ~Exists(fs, FindPath) => (~ret.ok /\ ret.err.kind = "RequestNotFound")
      /\ (~ret.ok /\ ret.err.kind = "IoError") => ret.err.arg # <<"NotFound">>

\* The kind of error find returns for a request file that is not JSON.
MalformedFileKind ==
    from_file(MkFs({<<>>}, {<<<<R_KUIPER>>, TextFile>>}, {}), <<R_KUIPER>>).err.kind
ReparseFailed ==
    /\ AllLooked /\ ~ret.ok /\ ret.stage = "body"
    /\ interpolate_str(ValueToString(PreInterpolation.body[1]), env, Gen0).ok
NoPlaceholders(body) == body = None \/ ~Contains(ValueToString(body[1]), OPEN)
\* C8: a body that no longer parses after replacement fails with a kind other
\* than that of a malformed file, and a body without placeholders is unchanged.
C8_ReparseErrorIsDistinct ==
    /\ ReparseFailed => ret.err.kind # MalformedFileKind
    /\ (FindReturned /\ ret.ok /\ NoPlaceholders(fs.files[FindPath].req.body))
          => ret.val.body = fs.files[FindPath].req.body

\* --- Request::search, read off the filesystem
SearchReturned ==
    \/ call.op = "search" /\ pc = "returned"
    \/ /\ call.op = "main" /\ pc \in {"exit", "panicked"}
       /\ call.env_file \in {"none", "vars"} /\ ~MainCanonical.ok
SearchRoot == IF call.op = "search" THEN call.root ELSE call.dir
SearchTerm == IF call.op = "search" THEN call.term ELSE ArgString(call.path)
\* The .kuiper files at any depth under the root whose full path contains the term.
Matching ==
    {p \in DOMAIN fs.files :
        /\ IsPrefix(SearchRoot, p)
        /\ Extension(Last(p)) = S_kuiper
        /\ Contains(PathToStr(p), SearchTerm)}
Resolved(p) == find(fs, <<>>, AbsArg(p), env, Gen0, ord)
OnePerMatch(reqs) ==
    /\ Len(reqs) = Cardinality(Matching)
    /\ {reqs[i].name : i \in 1..Len(reqs)} = {PathToStr(p) : p \in Matching}

\* C6: whenever the walk meets no filesystem error, search returns exactly one
\* result per matching .kuiper file: none when none match, all of them when
\* several match, never another file or a directory.
C6_Claimed_OneResultPerMatch ==
    (SearchReturned /\ ret.walk.ok) => (ret.ok /\ OnePerMatch(ret.val))

\* --- main
MainDone == call.op = "main" /\ pc \in {"exit", "panicked"} /\ call.env_file \in {"none", "vars"}
\* C7: main hands a request to the HTTP client only when the path canonicalizes
\* to a file find succeeds on, or when it does not canonicalize and search
\* returns exactly one candidate; with no candidate or several nothing is sent,
\* and several candidates are all named in the report.
C7_SentOnlyWhenUnambiguous ==
    /\ stdout # <<>> => (sent # <<>> /\ stdout[1].of = sent[1].name)
    /\ sent # <<>> =>
          /\ MainDone /\ ret.ok
          /\ IF MainCanonical.ok
             THEN /\ IsFile(fs, MainCanonical.val)
                  /\ ret = Resolved(MainCanonical.val)
                  /\ sent = <<ret.val>>
             ELSE Len(ret.val) = 1 /\ sent = ret.val /\ OnePerMatch(ret.val)
    /\ (MainDone /\ ~MainCanonical.ok /\ ret.ok /\ Len(ret.val) # 1) =>
          /\ sent = <<>>
          /\ Len(ret.val) > 1 =>
                /\ Len(stderr) = 1
                /\ Len(stderr[1].names) = Cardinality(Matching)
                /\ Range(stderr[1].names) = {PathToStr(p) : p \in Matching}
\* main fell back to search, which returned one candidate, and sent it.
C7_Witness ==
    /\ MainDone /\ pc = "exit" /\ ~MainCanonical.ok
    /\ Len(sent) = 1 /\ stdout = Printed(sent[1])
    /\ sent[1].name = PathToStr(Append(Chain(2), B_KUIPER))

Next == InterpolateStr \/ Find \/ Search \/ MainLocate \/ MainFind \/ MainSearch

Spec == Init /\ [][Next]_vars
====
